---- MODULE Spec2Model ----
(***************************************************************************)
(* Model of the Indian credit-card advisor (main.py): the trusted-domain   *)
(* check, the concurrent snippet fetcher, the snippet enhancement and the  *)
(* rate-limited request handling of one browser session.                   *)
(*                                                                         *)
(* Python strings are TLA+ strings; Len, \o and SubSeq act on them as on   *)
(* sequences of characters.                                                *)
(***************************************************************************)
EXTENDS Integers, Sequences, FiniteSets, TLC

VARIABLES
    \* is_trusted_domain called on one URL
    url, trusted, tpc,
    \* enhance_with_web_search called on one list of search results
    search_results, enhancement, epc,
    \* st.session_state of one browser session and the clock
    has_session, history, last_request_time, requests_in_minute, now,
    \* the script run in progress: position, prompt, locals, what it displayed
    pc, user_prompt, web_info, shown, error,
    \* observation of the run: calls made for the current prompt and its outcome
    start_chat_calls, window_forwards, searches, search_arg, sends, sent_text,
    rim_before, outcome,
    \* perform_web_search in progress: position, fetch tasks, returned list, and
    \* how many fetches of this search have ended and how many returned None
    spc, primary_tasks, verification_tasks, formatted_results, fetch_log,
    \* format_text_section called on one text part of an answer
    document, formatted_text, fpc

trustVars == <<url, trusted, tpc>>
enhVars == <<search_results, enhancement, epc>>
stateVars == <<has_session, history, last_request_time, requests_in_minute>>
runVars == <<pc, user_prompt, web_info, shown, error>>
obsVars == <<start_chat_calls, window_forwards, searches, search_arg, sends, sent_text,
             rim_before, outcome>>
searchVars == <<spc, primary_tasks, verification_tasks, formatted_results, fetch_log>>
formatVars == <<document, formatted_text, fpc>>
sessionVars == <<stateVars, now, runVars, obsVars>>
vars == <<trustVars, enhVars, sessionVars, searchVars, formatVars>>

(***************************************************************************)
(* Python string primitives                                                *)
(***************************************************************************)
Char(s, i) == SubSeq(s, i, i)

\* str.lower() on one character (ASCII letters)
LowerChar(c) ==
    CASE c = "A" -> "a" [] c = "B" -> "b" [] c = "C" -> "c" [] c = "D" -> "d"
      [] c = "E" -> "e" [] c = "F" -> "f" [] c = "G" -> "g" [] c = "H" -> "h"
      [] c = "I" -> "i" [] c = "J" -> "j" [] c = "K" -> "k" [] c = "L" -> "l"
      [] c = "M" -> "m" [] c = "N" -> "n" [] c = "O" -> "o" [] c = "P" -> "p"
      [] c = "Q" -> "q" [] c = "R" -> "r" [] c = "S" -> "s" [] c = "T" -> "t"
      [] c = "U" -> "u" [] c = "V" -> "v" [] c = "W" -> "w" [] c = "X" -> "x"
      [] c = "Y" -> "y" [] c = "Z" -> "z" [] OTHER -> c

\* s[lo..hi] lower-cased, by halves
RECURSIVE LowerRange(_, _, _)
LowerRange(s, lo, hi) ==
    IF lo > hi THEN ""
    ELSE IF lo = hi THEN LowerChar(Char(s, lo))
    ELSE LET mid == (lo + hi) \div 2
         IN LowerRange(s, lo, mid) \o LowerRange(s, mid + 1, hi)

\* s.lower()
Lower(s) == LowerRange(s, 1, Len(s))

\* s.startswith(p)
StartsWith(s, p) == Len(p) <= Len(s) /\ SubSeq(s, 1, Len(p)) = p

\* s[i:] with a 1-based first index
Tail_(s, i) == SubSeq(s, i, Len(s))

\* sub in s
Contains(s, sub) ==
    \E i \in 1..(Len(s) - Len(sub) + 1) : SubSeq(s, i, i + Len(sub) - 1) = sub

\* s.find(sub) as a 1-based index, 0 when absent
Find(s, sub) ==
    IF Contains(s, sub)
    THEN CHOOSE i \in 1..(Len(s) - Len(sub) + 1) :
            /\ SubSeq(s, i, i + Len(sub) - 1) = sub
            /\ \A j \in 1..(i - 1) : SubSeq(s, j, j + Len(sub) - 1) # sub
    ELSE 0

\* s.replace(old, new): every non-overlapping occurrence, left to right
RECURSIVE Replace(_, _, _)
Replace(s, old, new) ==
    LET i == Find(s, old)
    IN IF i = 0 THEN s
       ELSE SubSeq(s, 1, i - 1) \o new \o Replace(Tail_(s, i + Len(old)), old, new)

IsSpace(c) == c \in {" ", "\t", "\n"}

RECURSIVE LStrip(_)
LStrip(s) == IF Len(s) > 0 /\ IsSpace(Char(s, 1)) THEN LStrip(Tail_(s, 2)) ELSE s

RECURSIVE RStrip(_)
RStrip(s) ==
    IF Len(s) > 0 /\ IsSpace(Char(s, Len(s))) THEN RStrip(SubSeq(s, 1, Len(s) - 1)) ELSE s

\* s.strip()
Strip(s) == LStrip(RStrip(s))

\* s[lo..hi] with every run of whitespace replaced by one space, by halves
RECURSIVE CollapseRange(_, _, _)
CollapseRange(s, lo, hi) ==
    IF lo > hi THEN ""
    ELSE IF lo = hi
         THEN (IF ~ IsSpace(Char(s, lo)) THEN Char(s, lo)
               ELSE IF lo > 1 /\ IsSpace(Char(s, lo - 1)) THEN "" ELSE " ")
    ELSE LET mid == (lo + hi) \div 2
         IN CollapseRange(s, lo, mid) \o CollapseRange(s, mid + 1, hi)

\* ' '.join(s.split()): runs of whitespace become one space, the ends are trimmed
SplitJoin(s) == LET t == Strip(s) IN CollapseRange(t, 1, Len(t))

(***************************************************************************)
(* Trusted domains                                                         *)
(***************************************************************************)
PRIMARY_SOURCES == <<"cardinsider.com", "bankbazaar.com">>

BANK_DOMAINS ==
    <<"hdfcbank.com", "sbicard.com", "icicibank.com", "axisbank.com",
      "idfcfirstbank.com", "indusind.com", "hsbc.co.in", "sc.com", "kotak.com",
      "yesbank.in", "rblbank.com", "creditcardinsider.in", "cardexpert.in">>

Range(f) == {f[i] : i \in DOMAIN f}

\* first index of s at or after `from` holding one of the characters cs, Len(s)+1 when none
RECURSIVE FirstOf(_, _, _)
FirstOf(s, from, cs) ==
    IF from > Len(s) THEN Len(s) + 1
    ELSE IF Char(s, from) \in cs THEN from
    ELSE FirstOf(s, from + 1, cs)

\* urlparse(u).netloc: what follows '<scheme>://' up to the next '/', '?' or '#'
Netloc(u) ==
    LET c == Find(u, ":")
        rest == IF c > 1 THEN Tail_(u, c + 1) ELSE u
    IN IF StartsWith(rest, "//")
       THEN SubSeq(rest, 3, FirstOf(rest, 3, {"/", "?", "#"}) - 1)
       ELSE ""

is_trusted_domain(u) ==
    LET domain == Replace(Lower(Netloc(u)), "www.", "")
    IN domain \in Range(PRIMARY_SOURCES) \/ domain \in Range(BANK_DOMAINS)

\* urlparse(u).hostname: the netloc without user info and port, lower-cased
Hostname(u) ==
    LET n == Netloc(u)
        at == Find(n, "@")
        hostport == IF at > 0 THEN Tail_(n, at + 1) ELSE n
        colon == Find(hostport, ":")
    IN Lower(IF colon > 0 THEN SubSeq(hostport, 1, colon - 1) ELSE hostport)

(***************************************************************************)
(* fetch_url: one HTTP GET and the extraction of its snippet               *)
(***************************************************************************)
None == [none |-> TRUE]

\* credit_card_indicators: term and weight
credit_card_indicators ==
    <<[term |-> "reward rate", weight |-> 3], [term |-> "cashback", weight |-> 3],
      [term |-> "annual fee", weight |-> 3], [term |-> "welcome offer", weight |-> 2],
      [term |-> "lounge access", weight |-> 2], [term |-> "credit limit", weight |-> 2],
      [term |-> "joining fee", weight |-> 2], [term |-> "benefits", weight |-> 1],
      [term |-> "eligibility", weight |-> 1]>>

RECURSIVE SumWeights(_, _)
SumWeights(text, i) ==
    IF i > Len(credit_card_indicators) THEN 0
    ELSE (IF Contains(text, credit_card_indicators[i].term)
          THEN credit_card_indicators[i].weight ELSE 0) + SumWeights(text, i + 1)

\* relevance score of one element text
Score(text) == SumWeights(Lower(text), 1)

MinTextLen == 30
SnippetLimit == 250

\* list.sort(key=score, reverse=True): stable, highest score first
RECURSIVE SortByScoreDesc(_)
SortByScoreDesc(xs) ==
    IF Len(xs) = 0 THEN <<>>
    ELSE LET m == CHOOSE v \in {xs[i].score : i \in DOMAIN xs} :
                      \A i \in DOMAIN xs : xs[i].score <= v
             IsMax(x) == x.score = m
             IsLess(x) == x.score < m
         IN SelectSeq(xs, IsMax) \o SortByScoreDesc(SelectSeq(xs, IsLess))

\* xs[:n]
Take(xs, n) == SubSeq(xs, 1, IF Len(xs) < n THEN Len(xs) ELSE n)

\* sep.join(ts)
RECURSIVE Join(_, _)
Join(ts, sep) ==
    IF Len(ts) = 0 THEN ""
    ELSE IF Len(ts) = 1 THEN ts[1]
    ELSE ts[1] \o sep \o Join(Tail(ts), sep)

RECURSIVE SumScores(_)
SumScores(xs) == IF Len(xs) = 0 THEN 0 ELSE xs[1].score + SumScores(Tail(xs))

\* A page is what the server answers for a requested URL:
\*   raises      an exception of session.get / response.text ("" when none)
\*   status      the HTTP status
\*   texts       get_text(strip=True) of the p/li/h2/h3/td elements, in document order
\*   title_none  soup.title.string is None (a <title> without a single string)
\*   redirect    the final URL when the request was redirected ("" when not)
Page(raises, status, texts, title_none, redirect) ==
    [raises |-> raises, status |-> status, texts |-> texts,
     title_none |-> title_none, redirect |-> redirect]

\* fetch_url without the test of response.status
fetch_url_AnyStatus(requested, page) ==
    IF page.raises # "" THEN None
    ELSE LET IsLong(t) == Len(t) > MinTextLen
             long == SelectSeq(page.texts, IsLong)
             scored == [i \in 1..Len(long) |-> [text |-> long[i], score |-> Score(long[i])]]
             IsRelevant(x) == x.score > 0
             texts == SelectSeq(scored, IsRelevant)
             top == Take(SortByScoreDesc(texts), 2)
         IN IF Len(texts) = 0 THEN None
            ELSE IF page.title_none THEN None
            ELSE [link |-> IF page.redirect # "" THEN page.redirect ELSE requested,
                  snippet |-> Take(Join([i \in 1..Len(top) |-> top[i].text], " | "),
                                   SnippetLimit),
                  relevance_score |-> SumScores(top)]

\* fetch_url on one answer: None, or the dict it returns
fetch_url(requested, page) ==
    IF page.raises # "" THEN None
    ELSE IF page.status # 200 THEN None
    ELSE LET IsLong(t) == Len(t) > MinTextLen
             long == SelectSeq(page.texts, IsLong)
             scored == [i \in 1..Len(long) |-> [text |-> long[i], score |-> Score(long[i])]]
             IsRelevant(x) == x.score > 0
             texts == SelectSeq(scored, IsRelevant)
             top == Take(SortByScoreDesc(texts), 2)
         IN IF Len(texts) = 0 THEN None
            \* re.sub on a title that is None raises TypeError, caught by the except
            ELSE IF page.title_none THEN None
            ELSE [link |-> IF page.redirect # "" THEN page.redirect ELSE requested,
                  snippet |-> Take(Join([i \in 1..Len(top) |-> top[i].text], " | "),
                                   SnippetLimit),
                  relevance_score |-> SumScores(top)]

(***************************************************************************)
(* enhance_with_web_search: from the search results to the appended text   *)
(***************************************************************************)
\* U+2022 BULLET, written in ASCII
BULLET == "*"

HEADING == "\n\nLatest Credit Card Updates\n\n"
DISCLAIMER == "\n*Please verify the latest terms and conditions on the official bank website.*"

MinSnippetLen == 50

\* list.sort(key=relevance_score, reverse=True)
RECURSIVE SortByRelevance(_)
SortByRelevance(rs) ==
    IF Len(rs) = 0 THEN <<>>
    ELSE LET m == CHOOSE v \in {rs[i].relevance_score : i \in DOMAIN rs} :
                      \A i \in DOMAIN rs : rs[i].relevance_score <= v
             IsMax(r) == r.relevance_score = m
             IsLess(r) == r.relevance_score < m
         IN SelectSeq(rs, IsMax) \o SortByRelevance(SelectSeq(rs, IsLess))

\* simple_snippet = ' '.join(snippet.lower().split())
SimpleSnippet(r) == SplitJoin(Lower(Strip(r.snippet)))

\* lines 340-348 without the test "simple_snippet not in seen_snippets"
RECURSIVE UniqueFrom_KeepAll(_, _, _)
UniqueFrom_KeepAll(rs, i, seen) ==
    IF i > Len(rs) THEN [unique |-> <<>>, seen |-> seen]
    ELSE LET simple == SimpleSnippet(rs[i])
             rest == UniqueFrom_KeepAll(rs, i + 1, seen \cup {simple})
         IN [unique |-> <<rs[i]>> \o rest.unique, seen |-> rest.seen]

\* lines 340-348: keep the first result of every simplified snippet
RECURSIVE UniqueFrom(_, _, _)
UniqueFrom(rs, i, seen) ==
    IF i > Len(rs) THEN [unique |-> <<>>, seen |-> seen]
    ELSE LET simple == SimpleSnippet(rs[i])
         IN IF simple # "" /\ simple \notin seen
            THEN LET rest == UniqueFrom(rs, i + 1, seen \cup {simple})
                 IN [unique |-> <<rs[i]>> \o rest.unique, seen |-> rest.seen]
            ELSE UniqueFrom(rs, i + 1, seen)

\* lines 350-355
IsMeaningful(r) ==
    /\ r.snippet # ""
    /\ Len(Strip(r.snippet)) > MinSnippetLen
    /\ ~ \E term \in {"cookie", "privacy", "terms of use"} : Contains(Lower(r.snippet), term)
    /\ ~ StartsWith(r.snippet, "FIRST EA")

\* urlparse(link).netloc.replace('www.', '')
BulletDomain(link) == Replace(Netloc(link), "www.", "")

\* the test of lines 368 and 376
IsNewSnippet(snippet, seen) == ~ \E existing \in seen : Contains(Lower(snippet), existing)

\* the loops of lines 365-378 over one group of results
RECURSIVE EmitBullets(_, _, _)
EmitBullets(rs, i, seen) ==
    IF i > Len(rs) THEN [bullets |-> <<>>, seen |-> seen]
    ELSE LET snippet == Strip(rs[i].snippet)
         IN IF IsNewSnippet(snippet, seen)
            THEN LET rest == EmitBullets(rs, i + 1, seen \cup {Lower(snippet)})
                 IN [bullets |-> <<[domain |-> BulletDomain(rs[i].link),
                                    snippet |-> snippet]>> \o rest.bullets,
                     seen |-> rest.seen]
            ELSE EmitBullets(rs, i + 1, seen)

BulletLine(b) == BULLET \o " From " \o b.domain \o ": " \o b.snippet \o "\n\n"

\* The bullets written by enhance_with_web_search, in order
EnhancementBullets(results) ==
    LET sorted == SortByRelevance(results)
        u == UniqueFrom(sorted, 1, {})
        meaningful == SelectSeq(u.unique, IsMeaningful)
        IsPrimary(r) == r.source_type = "primary"
        IsVerification(r) == r.source_type = "verification"
        primary_results == Take(SelectSeq(meaningful, IsPrimary), 2)
        verification_results == Take(SelectSeq(meaningful, IsVerification), 2)
        p == EmitBullets(primary_results, 1, u.seen)
        v == EmitBullets(verification_results, 1, p.seen)
    IN p.bullets \o v.bullets

\* The results that pass the filters of lines 339-355
MeaningfulResults(results) ==
    SelectSeq(UniqueFrom(SortByRelevance(results), 1, {}).unique, IsMeaningful)

enhance_with_web_search(results) ==
    IF Len(results) = 0 THEN ""
    ELSE IF Len(MeaningfulResults(results)) = 0 THEN ""
    ELSE LET bs == EnhancementBullets(results)
         IN HEADING \o Join([i \in 1..Len(bs) |-> BulletLine(bs[i])], "") \o DISCLAIMER

(***************************************************************************)
(* The pages the servers may answer with                                   *)
(***************************************************************************)
CashbackText == "Earn 5% cashback on all online spends with this credit card"
CashbackText2Sp == "Earn 5%  cashback on all online spends with this credit card"
CashbackText3Sp == "EARN 5%   CASHBACK ON ALL ONLINE SPENDS WITH THIS CREDIT CARD"
FeeText2Sp == "Annual fee  of Rs 500 is waived on yearly spends above Rs 1 lakh"
ShortText == "Annual fee  of Rs 500 plus taxes apply"
CookieText == "This site uses cookies to personalise cashback  offers for you"
IdfcText == "FIRST EARN  cashback of 10% on your first credit card spends!"
NavText == "Home page of the bank with links to all products and services"

Pages ==
    [error    |-> Page("ClientConnectorError", 0, <<>>, FALSE, ""),
     timeout  |-> Page("TimeoutError", 0, <<>>, FALSE, ""),
     status   |-> Page("", 404, <<CashbackText2Sp>>, FALSE, ""),
     empty    |-> Page("", 200, <<NavText, "Cashback">>, FALSE, ""),
     notitle  |-> Page("", 200, <<CashbackText2Sp>>, TRUE, ""),
     plain    |-> Page("", 200, <<NavText, CashbackText>>, FALSE, ""),
     spaced   |-> Page("", 200, <<CashbackText2Sp>>, FALSE, ""),
     upper    |-> Page("", 200, <<CashbackText3Sp>>, FALSE, ""),
     double   |-> Page("", 200, <<ShortText, CashbackText2Sp, FeeText2Sp>>, FALSE, ""),
     short    |-> Page("", 200, <<ShortText>>, FALSE, ""),
     cookie   |-> Page("", 200, <<CookieText>>, FALSE, ""),
     idfc     |-> Page("", 200, <<IdfcText>>, FALSE,
                       "https://www.idfcfirstbank.com/credit-card"),
     moved    |-> Page("", 200, <<FeeText2Sp>>, FALSE,
                       "https://www.offers-hub.example/cards?ref=bank")]

PageKinds == DOMAIN Pages

(***************************************************************************)
(* The URLs perform_web_search requests                                    *)
(***************************************************************************)
primary_paths ==
    <<"/credit-card/compare/", "/credit-cards/details/", "/credit-card-reviews/",
      "/credit-cards/search", "/credit-cards">>

verification_paths ==
    <<"/credit-cards/benefits", "/credit-card/offers", "/credit-card/rewards",
      "/cards/compare">>

VerificationBanks == 5

\* [f(d, p) for d in domains for p in paths]
RECURSIVE ForDomainForPath(_, _, _, _)
ForDomainForPath(domains, paths, suffix, i) ==
    IF i > Len(domains) THEN <<>>
    ELSE [j \in 1..Len(paths) |-> "https://" \o domains[i] \o paths[j] \o suffix]
            \o ForDomainForPath(domains, paths, suffix, i + 1)

primary_urls(query) ==
    ForDomainForPath(PRIMARY_SOURCES, primary_paths, Lower(Replace(query, " ", "-")), 1)

verification_urls ==
    ForDomainForPath(Take(BANK_DOMAINS, VerificationBanks), verification_paths, "", 1)

\* search_query of enhance_with_web_search
SearchQuery(prompt) == prompt \o " credit card features rewards"

(***************************************************************************)
(* perform_web_search on the values its fetch tasks returned               *)
(***************************************************************************)
num_results == 3

\* {**result, 'source_type': t}
Tagged(result, t) ==
    [link |-> result.link, snippet |-> result.snippet,
     relevance_score |-> result.relevance_score, source_type |-> t]

\* isinstance(result, dict) and result.get('snippet')
HasSnippet(result) == result # None /\ result.snippet # ""

\* the loops of lines 252-256 and 267-271 without their return / break
RECURSIVE AppendResults_NoStop(_, _, _, _)
AppendResults_NoStop(formatted, results, i, t) ==
    IF i > Len(results) THEN formatted
    ELSE IF HasSnippet(results[i])
         THEN AppendResults_NoStop(Append(formatted, Tagged(results[i], t)), results, i + 1, t)
         ELSE AppendResults_NoStop(formatted, results, i + 1, t)

\* The loops of lines 252-256 and 267-271: append the results that carry a
\* snippet, stopping as soon as num_results results are collected
RECURSIVE AppendResults(_, _, _, _)
AppendResults(formatted, results, i, t) ==
    IF i > Len(results) THEN formatted
    ELSE IF HasSnippet(results[i])
         THEN LET next == Append(formatted, Tagged(results[i], t))
              IN IF Len(next) >= num_results THEN next
                 ELSE AppendResults(next, results, i + 1, t)
         ELSE AppendResults(formatted, results, i + 1, t)

\* the verification sources tried whatever the primary ones gave
NeedsVerification_Always(formatted) == TRUE

\* lines 258-259: the verification sources are tried
NeedsVerification(formatted) == Len(formatted) < num_results

\* perform_web_search, given what every fetch returns
perform_web_search(primary_results, verification_results) ==
    LET formatted == AppendResults(<<>>, primary_results, 1, "primary")
    IN IF NeedsVerification(formatted)
       THEN AppendResults(formatted, verification_results, 1, "verification")
       ELSE formatted

(***************************************************************************)
(* The chat session and one script run                                     *)
(***************************************************************************)
\* CREDIT_CARD_EXPERT_PROMPT and the structure rules appended to it, abridged
PERSONA_PROMPT ==
    "You are a concise credit card expert focusing on the Indian market. ALWAYS use tables for comparisons. IMPORTANT: Always provide comprehensive responses following this exact structure for card reviews and comparisons"

\* the model's first entry, abridged
GREETING == "Hello! I'm your Indian Credit Card Expert. How may I assist you today?"

PROMPT_PREFIX == "For Indian credit cards only: "

\* the prompts a user types
SamplePrompt == "Best Cashback Card"
Prompts == {SamplePrompt, "Lounge Access Cards"}

\* the texts the model answers with
Replies == {"<table><tr><th>Card</th></tr></table>", "Here are my picks"}

RateLimit == 10
RateWindow == 60

\* history=[...] of model.start_chat
InitialHistory ==
    <<[role |-> "user", text |-> PERSONA_PROMPT], [role |-> "model", text |-> GREETING]>>

translate_role_for_streamlit(user_role) ==
    IF user_role = "model" THEN "assistant" ELSE user_role

\* chat_session.history[1:]
HistoryToDisplay_SkipOne(h) == SubSeq(h, 2, Len(h))

\* chat_session.history[2:]
HistoryToDisplay(h) == SubSeq(h, 3, Len(h))

\* lines 464-470: one chat message per entry, in order
DisplayHistory(h) ==
    [i \in 1..Len(HistoryToDisplay(h)) |->
        [role |-> translate_role_for_streamlit(HistoryToDisplay(h)[i].role),
         text |-> HistoryToDisplay(h)[i].text]]

\* the prompt forwarded as typed
EnhancedPrompt_NoPrefix(prompt) == prompt

\* enhanced_prompt of line 493
EnhancedPrompt(prompt) == PROMPT_PREFIX \o prompt

NoError == [message |-> "", wait |-> 0]

\* the st.error of line 485; wait is int(time_to_wait)
RateLimitError(time_to_wait) ==
    [message |-> "Rate limit exceeded. Please wait approximately "
                    \o ToString(time_to_wait) \o " seconds before trying again.",
     wait |-> time_to_wait]

(***************************************************************************)
(* Parts of the state that a specification does not exercise               *)
(***************************************************************************)
TrustIdle == url = "" /\ trusted = FALSE /\ tpc = "idle"

EnhanceIdle == search_results = <<>> /\ enhancement = "" /\ epc = "idle"

FormatIdle ==
    /\ document = [before |-> "", items |-> <<>>, after |-> ""]
    /\ formatted_text = ""
    /\ fpc = "idle"

SearchIdle ==
    /\ spc = "idle"
    /\ primary_tasks = <<>>
    /\ verification_tasks = <<>>
    /\ formatted_results = <<>>
    /\ fetch_log = [ended |-> 0, failed |-> 0]

SessionIdle ==
    /\ has_session = FALSE
    /\ history = <<>>
    /\ last_request_time = 0
    /\ requests_in_minute = 0
    /\ now = 0
    /\ pc = "idle"
    /\ user_prompt = ""
    /\ web_info = ""
    /\ shown = <<>>
    /\ error = NoError
    /\ start_chat_calls = 0
    /\ window_forwards = 0
    /\ searches = 0
    /\ search_arg = ""
    /\ sends = 0
    /\ sent_text = ""
    /\ rim_before = 0
    /\ outcome = "none"

(***************************************************************************)
(* is_trusted_domain on URLs assembled from host fragments                 *)
(***************************************************************************)
MaxPieces == 3

HostPieces == {"www.", "WWW.", "sc", ".com", "sc.com", "Kotak.com", "evil.com", ":443"}

RECURSIVE Concat(_)
Concat(ps) == IF Len(ps) = 0 THEN "" ELSE Head(ps) \o Concat(Tail(ps))

TrustInputs ==
    {"https://" \o Concat(ps) \o "/credit-cards" :
        ps \in UNION {[1..n -> HostPieces] : n \in 1..MaxPieces}}

InitTrust ==
    /\ url \in TrustInputs
    /\ trusted = FALSE
    /\ tpc = "call"
    /\ EnhanceIdle
    /\ SessionIdle
    /\ SearchIdle
    /\ FormatIdle

CallIsTrustedDomain ==
    /\ tpc = "call"
    /\ trusted' = is_trusted_domain(url)
    /\ tpc' = "returned"
    /\ UNCHANGED <<url, enhVars, sessionVars, searchVars, formatVars>>

NextTrust == CallIsTrustedDomain

SpecTrust == InitTrust /\ [][NextTrust]_vars

\* C7 (as claimed): is_trusted_domain(url) is true exactly when the URL's
\* hostname, lower-cased and without one leading 'www.' label, is a member of
\* PRIMARY_SOURCES or BANK_DOMAINS.
HostWithoutLeadingWww(u) ==
    LET h == Hostname(u) IN IF StartsWith(h, "www.") THEN Tail_(h, 5) ELSE h

C7_TrustedExactlyListedHosts ==
    tpc = "returned" =>
        (trusted <=> (HostWithoutLeadingWww(url) \in Range(PRIMARY_SOURCES)
                        \/ HostWithoutLeadingWww(url) \in Range(BANK_DOMAINS)))

(***************************************************************************)
(* enhance_with_web_search on the result lists perform_web_search can      *)
(* return: at most num_results results, the primary ones first             *)
(***************************************************************************)
\* the page kinds for which fetch_url returns a result
OkKinds == {k \in PageKinds : fetch_url("https://cardinsider.com/credit-cards", Pages[k]) # None}

\* what fetch_url returns for the i-th URL of either list, by page kind
SampleFetch ==
    [t \in {"primary", "verification"} |->
        [i \in 1..num_results |->
            [k \in OkKinds |->
                Tagged(fetch_url(IF t = "primary"
                                 THEN primary_urls(SearchQuery(SamplePrompt))[i]
                                 ELSE verification_urls[i], Pages[k]), t)]]]

\* the list returned when the first np answering URLs are primary ones
ResultList(kinds, np) ==
    [i \in 1..Len(kinds) |->
        IF i <= np THEN SampleFetch["primary"][i][kinds[i]]
        ELSE SampleFetch["verification"][i - np][kinds[i]]]

EnhanceInputs ==
    UNION {{ResultList(kinds, np) : np \in 0..Len(kinds)} :
              kinds \in UNION {[1..n -> OkKinds] : n \in 0..num_results}}

InitEnhance ==
    /\ search_results \in EnhanceInputs
    /\ enhancement = ""
    /\ epc = "call"
    /\ TrustIdle
    /\ SessionIdle
    /\ SearchIdle
    /\ FormatIdle

CallEnhance ==
    /\ epc = "call"
    /\ enhancement' = enhance_with_web_search(search_results)
    /\ epc' = "returned"
    /\ UNCHANGED <<search_results, trustVars, formatVars, sessionVars, searchVars>>

NextEnhance == CallEnhance

SpecEnhance == InitEnhance /\ [][NextEnhance]_vars

\* s.split(sep)
RECURSIVE Split(_, _)
Split(s, sep) ==
    LET i == Find(s, sep)
    IN IF i = 0 THEN <<s>>
       ELSE <<SubSeq(s, 1, i - 1)>> \o Split(Tail_(s, i + Len(sep)), sep)

\* The bullet lines of an enhancement text: what lies between the heading and
\* the disclaimer, one '<bullet> From <domain>: <snippet>' per blank-line block
BulletsOf(text) ==
    IF ~ StartsWith(text, HEADING) THEN <<>>
    ELSE LET body == SubSeq(text, Len(HEADING) + 1, Len(text) - Len(DISCLAIMER))
             IsBullet(b) == StartsWith(b, BULLET \o " From ")
             blocks == SelectSeq(Split(body, "\n\n"), IsBullet)
         IN [i \in 1..Len(blocks) |->
                LET after == Tail_(blocks[i], Len(BULLET \o " From ") + 1)
                    c == Find(after, ": ")
                IN [domain |-> SubSeq(after, 1, c - 1), snippet |-> Tail_(after, c + 2)]]

EndsWith(s, p) == Len(p) <= Len(s) /\ SubSeq(s, Len(s) - Len(p) + 1, Len(s)) = p

\* C4 (as claimed): whenever at least one result is meaningful, the returned
\* text carries at least one bullet line between the heading and the disclaimer.
C4_MeaningfulResultGivesBullet ==
    (epc = "returned" /\ Len(MeaningfulResults(search_results)) > 0) =>
        /\ StartsWith(enhancement, HEADING)
        /\ EndsWith(enhancement, DISCLAIMER)
        /\ Len(BulletsOf(enhancement)) >= 1

\* C5: no two bullets of the returned text carry snippets that are equal after
\* lower-casing and collapsing whitespace, and no bullet's snippet contains the
\* snippet of an earlier bullet.
C5_BulletsDeduplicated ==
    epc = "returned" =>
        LET bs == BulletsOf(enhancement)
        IN \A i, j \in DOMAIN bs :
              i < j => /\ SplitJoin(Lower(bs[i].snippet)) # SplitJoin(Lower(bs[j].snippet))
                       /\ ~ Contains(bs[j].snippet, bs[i].snippet)

\* C5 witness: an enhancement with two bullets has been returned for a result
\* list holding two results whose simplified snippets are equal.
C5_Witness ==
    /\ epc = "returned"
    /\ Len(BulletsOf(enhancement)) >= 2
    /\ \E i, j \in DOMAIN search_results :
          i < j /\ SimpleSnippet(search_results[i]) = SimpleSnippet(search_results[j])

\* C6 (as claimed): every bullet of the enhancement is attributed to a domain
\* that is a member of PRIMARY_SOURCES or BANK_DOMAINS.
C6_BulletsFromTrustedDomains ==
    epc = "returned" =>
        \A i \in DOMAIN BulletsOf(enhancement) :
            \/ BulletsOf(enhancement)[i].domain \in Range(PRIMARY_SOURCES)
            \/ BulletsOf(enhancement)[i].domain \in Range(BANK_DOMAINS)

(***************************************************************************)
(* format_text_section (response_formatter.py): one text part of an answer *)
(* turned into markdown sections                                           *)
(***************************************************************************)
CharsOf(s) == {Char(s, i) : i \in 1..Len(s)}

\* \d, [A-Za-z], \w and \s of the regular expressions, on ASCII text
DigitChars == CharsOf("0123456789")
LetterChars == CharsOf("abcdefghijklmnopqrstuvwxyzABCDEFGHIJKLMNOPQRSTUVWXYZ")
WordChars == DigitChars \cup LetterChars \cup {"_"}
SpaceChars == {" ", "\t", "\n"}

Min(S) == CHOOSE x \in S : \A y \in S : x <= y

\* first index of s at or after `from` whose character is not in cs, Len(s)+1 when none
RECURSIVE SkipChars(_, _, _)
SkipChars(s, from, cs) ==
    IF from > Len(s) THEN Len(s) + 1
    ELSE IF Char(s, from) \notin cs THEN from
    ELSE SkipChars(s, from + 1, cs)

\* s.find(sub, from) as a 1-based index, 0 when absent
FindFrom(s, sub, from) ==
    IF from < 1 \/ from > Len(s) THEN 0
    ELSE LET i == Find(Tail_(s, from), sub) IN IF i = 0 THEN 0 ELSE i + from - 1

\* re.sub(r'<[^>]+>', '', text), line 236; also the markup get_text() leaves out
RECURSIVE StripTags(_)
StripTags(text) ==
    LET starts == {i \in 1..Len(text) :
                      Char(text, i) = "<" /\ FindFrom(text, ">", i) > i + 1}
    IN IF starts = {} THEN text
       ELSE LET i == Min(starts)
                gt == FindFrom(text, ">", i)
            IN SubSeq(text, 1, i - 1) \o StripTags(Tail_(text, gt + 1))

\* the contents of the <li> elements of a list, in order (ol.find_all('li'))
RECURSIVE ListItems(_)
ListItems(inner) ==
    LET i == Find(inner, "<li")
        gt == FindFrom(inner, ">", i)
        j == FindFrom(inner, "</li>", gt + 1)
    IN IF i = 0 \/ gt = 0 \/ j = 0 THEN <<>>
       ELSE <<SubSeq(inner, gt + 1, j - 1)>> \o ListItems(Tail_(inner, j + 5))

\* lines 173-174 and 180-181: f"- {text}" or f"{i}. {text}" for every item
ItemLines(items, ordered) ==
    [k \in 1..Len(items) |->
        (IF ordered THEN ToString(k) \o ". " ELSE "- ") \o Strip(StripTags(items[k]))]

\* lines 171-183: every <ul> (ordered = FALSE) or <ol> (ordered = TRUE) element
\* is replaced by the string '\n' + '\n'.join(items) + '\n\n'
RECURSIVE ListSub(_, _, _)
ListSub(text, tag, ordered) ==
    LET i == Find(text, "<" \o tag)
        gt == FindFrom(text, ">", i)
        j == FindFrom(text, "</" \o tag \o ">", gt + 1)
    IN IF i = 0 \/ gt = 0 \/ j = 0 THEN text
       ELSE SubSeq(text, 1, i - 1)
               \o "\n" \o Join(ItemLines(ListItems(SubSeq(text, gt + 1, j - 1)), ordered), "\n")
               \o "\n\n"
               \o ListSub(Tail_(text, j + Len(tag) + 3), tag, ordered)

\* an opening tag '<name' of one of the names starts at index i of low
OpensAt(low, i, names) ==
    \E k \in DOMAIN names : StartsWith(Tail_(low, i), "<" \o names[k])

\* a closing tag '</name>' of one of the names starts at index j of low
ClosesAt(low, j, names) ==
    \E k \in DOMAIN names : StartsWith(Tail_(low, j), "</" \o names[k] \o ">")

CloseLen(low, j, names) ==
    Len(names[CHOOSE k \in DOMAIN names :
                  StartsWith(Tail_(low, j), "</" \o names[k] \o ">")]) + 3

\* the closing tags that can end a match opened at index i
ClosesAfter(low, i, names) ==
    LET gt == FindFrom(low, ">", i)
    IN IF gt = 0 THEN {} ELSE {j \in (gt + 1)..Len(low) : ClosesAt(low, j, names)}

\* re.sub(r'<(?:n1|n2)[^>]*>(.*?)</(?:n1|n2)>', prefix + r'\1' + suffix, text,
\*        flags=re.DOTALL | re.IGNORECASE): every match, left to right
RECURSIVE ElementSub(_, _, _, _)
ElementSub(text, names, prefix, suffix) ==
    LET low == Lower(text)
        starts == {i \in 1..Len(text) :
                      OpensAt(low, i, names) /\ ClosesAfter(low, i, names) # {}}
    IN IF starts = {} THEN text
       ELSE LET i == Min(starts)
                gt == FindFrom(low, ">", i)
                j == Min(ClosesAfter(low, i, names))
            IN SubSeq(text, 1, i - 1) \o prefix \o SubSeq(text, gt + 1, j - 1) \o suffix
                  \o ElementSub(Tail_(text, j + CloseLen(low, j, names)),
                                names, prefix, suffix)

\* the element patterns of lines 189-215, in order. The patterns for code, a,
\* img and br are left out: the documents hold none of these elements.
ElementReplacements ==
    <<[names |-> <<"h1">>, prefix |-> "# ", suffix |-> "\n\n"],
      [names |-> <<"h2">>, prefix |-> "## ", suffix |-> "\n\n"],
      [names |-> <<"h3">>, prefix |-> "### ", suffix |-> "\n\n"],
      [names |-> <<"h4">>, prefix |-> "#### ", suffix |-> "\n\n"],
      [names |-> <<"h5">>, prefix |-> "##### ", suffix |-> "\n\n"],
      [names |-> <<"h6">>, prefix |-> "###### ", suffix |-> "\n\n"],
      [names |-> <<"b", "strong">>, prefix |-> "**", suffix |-> "**"],
      [names |-> <<"i", "em">>, prefix |-> "*", suffix |-> "*"],
      [names |-> <<"p">>, prefix |-> "", suffix |-> "\n\n"],
      [names |-> <<"div">>, prefix |-> "", suffix |-> "\n"],
      [names |-> <<"span">>, prefix |-> "", suffix |-> ""]>>

RECURSIVE ApplyElements(_, _)
ApplyElements(text, k) ==
    IF k > Len(ElementReplacements) THEN text
    ELSE ApplyElements(ElementSub(text, ElementReplacements[k].names,
                                  ElementReplacements[k].prefix,
                                  ElementReplacements[k].suffix), k + 1)

\* the entity patterns of lines 217-228 whose replacement is an ASCII character
EntityReplacements ==
    <<<<"&nbsp;", " ">>, <<"&amp;", "&">>, <<"&lt;", "<">>, <<"&gt;", ">">>,
      <<"&quot;", "\"">>, <<"&apos;", "'">>>>

RECURSIVE ApplyEntities(_, _)
ApplyEntities(text, k) ==
    IF k > Len(EntityReplacements) THEN text
    ELSE ApplyEntities(Replace(text, EntityReplacements[k][1], EntityReplacements[k][2]),
                       k + 1)

\* the prefixes of line 250
MarkdownPrefixes == {"#", "-", "*", "1.", ">", "|"}

\* re.sub(r'^([A-Za-z]+)\s+', r'\1 ', line), line 251
FirstWordSpacing(line) ==
    LET w == SkipChars(line, 1, LetterChars)
        e == SkipChars(line, w, SpaceChars)
    IN IF w > 1 /\ e > w THEN SubSeq(line, 1, w - 1) \o " " \o Tail_(line, e) ELSE line

\* lines 239-255: the stripped lines, grouped into the sections that the empty
\* lines separate
RECURSIVE SectionsFrom(_, _, _)
SectionsFrom(lines, i, current_section) ==
    LET closed == IF Len(current_section) > 0 THEN <<Join(current_section, "\n")>>
                  ELSE <<>>
    IN IF i > Len(lines) THEN closed
       ELSE LET line == Strip(lines[i])
            IN IF line = "" THEN closed \o SectionsFrom(lines, i + 1, <<>>)
               ELSE SectionsFrom(lines, i + 1,
                       Append(current_section,
                              IF \E prefix \in MarkdownPrefixes : StartsWith(line, prefix)
                              THEN line ELSE FirstWordSpacing(line)))

\* re.sub(lit + r'\s+(\w)', lit + r'\1', s), lines 261 and 263
RECURSIVE SpaceAfterSub(_, _)
SpaceAfterSub(s, lit) ==
    LET WordAfter(i) == SkipChars(s, i + Len(lit), SpaceChars)
        starts == {i \in 1..Len(s) :
                      /\ StartsWith(Tail_(s, i), lit)
                      /\ WordAfter(i) > i + Len(lit)
                      /\ WordAfter(i) <= Len(s)
                      /\ Char(s, WordAfter(i)) \in WordChars}
    IN IF starts = {} THEN s
       ELSE LET i == Min(starts)
            IN SubSeq(s, 1, i + Len(lit) - 1) \o Char(s, WordAfter(i))
                  \o SpaceAfterSub(Tail_(s, WordAfter(i) + 1), lit)

\* re.sub(r'(\w)\s+' + lit, r'\1' + lit, s), lines 262 and 264
RECURSIVE SpaceBeforeSub(_, _)
SpaceBeforeSub(s, lit) ==
    LET LitAfter(i) == SkipChars(s, i + 1, SpaceChars)
        starts == {i \in 1..Len(s) :
                      /\ Char(s, i) \in WordChars
                      /\ LitAfter(i) > i + 1
                      /\ StartsWith(Tail_(s, LitAfter(i)), lit)}
    IN IF starts = {} THEN s
       ELSE LET i == Min(starts)
            IN SubSeq(s, 1, i) \o lit \o SpaceBeforeSub(Tail_(s, LitAfter(i) + Len(lit)), lit)

\* re.sub(r'^(#{1,6})\s*(\w)', r'\1 \2', section), line 267; without
\* re.MULTILINE, ^ is the start of the section
HeaderSpacing(section) ==
    LET h == SkipChars(section, 1, {"#"})
        e == SkipChars(section, h, SpaceChars)
    IN IF h >= 2 /\ h <= 7 /\ e <= Len(section) /\ Char(section, e) \in WordChars
       THEN SubSeq(section, 1, h - 1) \o " " \o Tail_(section, e)
       ELSE section

\* re.sub(r'^-\s*(\w)', r'- \1', section), line 270
DashSpacing(section) ==
    LET e == SkipChars(section, 2, SpaceChars)
    IN IF StartsWith(section, "-") /\ e <= Len(section) /\ Char(section, e) \in WordChars
       THEN "- " \o Tail_(section, e)
       ELSE section

\* re.sub(r'^\d+\.\s*(\w)', r'\1. \1', section), line 271: the number at the
\* start of the section is replaced by the character captured after it
NumberSpacing(section) ==
    LET d == SkipChars(section, 1, DigitChars)
        e == SkipChars(section, d + 1, SpaceChars)
    IN IF /\ d >= 2
          /\ d <= Len(section)
          /\ Char(section, d) = "."
          /\ e <= Len(section)
          /\ Char(section, e) \in WordChars
       THEN Char(section, e) \o ". " \o Char(section, e) \o Tail_(section, e + 1)
       ELSE section

\* lines 259-273 on one section
FormatSection(section) ==
    NumberSpacing(DashSpacing(HeaderSpacing(
        SpaceBeforeSub(SpaceAfterSub(SpaceBeforeSub(SpaceAfterSub(section, "**"), "**"),
                                     "*"), "*"))))

format_text_section(text) ==
    IF text = "" THEN ""
    ELSE LET soup == ListSub(ListSub(text, "ul", FALSE), "ol", TRUE)
             replaced == ApplyEntities(ApplyElements(soup, 1), 1)
             sections == SectionsFrom(Split(StripTags(replaced), "\n"), 1, <<>>)
         IN Join([i \in 1..Len(sections) |-> FormatSection(sections[i])], "\n\n")

(***************************************************************************)
(* format_text_section on text parts that hold one ordered list            *)
(***************************************************************************)
\* items an ordered list may hold
MaxItems == 2

\* the texts of list items: starting with a letter, a digit, a bracket
ItemTexts == {"Apply online", "5% cashback on fuel", "(Optional) add-on card"}

\* what precedes the list: nothing, text on the line before it, a paragraph,
\* a heading
Befores == {"", "Steps to apply:", "<p>Steps to apply:</p>", "<h2>How to apply</h2>"}

\* what follows the list
Afters == {"", "<p>Fees <b> may </b> apply</p>"}

FormatInputs ==
    {[before |-> b, items |-> ts, after |-> a] :
        b \in Befores, ts \in UNION {[1..n -> ItemTexts] : n \in 1..MaxItems}, a \in Afters}

\* the HTML of a document: before, <ol><li>t1</li>...<li>tn</li></ol>, after
HtmlOf(d) ==
    d.before \o "<ol>" \o Concat([i \in 1..Len(d.items) |-> "<li>" \o d.items[i] \o "</li>"])
        \o "</ol>" \o d.after

InitFormat ==
    /\ document \in FormatInputs
    /\ formatted_text = ""
    /\ fpc = "call"
    /\ TrustIdle
    /\ EnhanceIdle
    /\ SessionIdle
    /\ SearchIdle

CallFormatTextSection ==
    /\ fpc = "call"
    /\ formatted_text' = format_text_section(HtmlOf(document))
    /\ fpc' = "returned"
    /\ UNCHANGED <<document, trustVars, enhVars, sessionVars, searchVars>>

NextFormat == CallFormatTextSection

SpecFormat == InitFormat /\ [][NextFormat]_vars

\* the lines 'i. ti' appear, in order and one after the other, among the lines
\* of the text
HasNumberedLines(text, items) ==
    LET lines == Split(text, "\n")
    IN \E k \in 0..(Len(lines) - Len(items)) :
          \A i \in 1..Len(items) : lines[k + i] = ToString(i) \o ". " \o Strip(items[i])

\* C13 (as claimed): format_text_section keeps the numbering of ordered lists:
\* an <ol> with items t1..tn comes out as the lines '1. t1' ... 'n. tn',
\* including when the list is the first thing in its blank-line-separated
\* section.
C13_OrderedListNumberingKept ==
    fpc = "returned" => HasNumberedLines(formatted_text, document.items)

(***************************************************************************)
(* The session: script runs, rate limiting and process_request             *)
(***************************************************************************)
\* time.time() when the page is first loaded, in seconds
StartTime == 1000
\* the clock advances by these steps, up to MaxElapsed seconds after StartTime
TickSteps == {30, 31}
MaxElapsed == 61
\* exchanges a session may accumulate in its history
MaxTurns == 2

\* What the servers answer during one search: a page kind per requested URL,
\* or an exception of perform_web_search's own
Scenarios ==
    [own_exception |->
        [raises |-> TRUE,
         primary |-> [i \in 1..10 |-> "error"],
         verification |-> [i \in 1..20 |-> "error"]],
     all_fail |->
        [raises |-> FALSE,
         primary |-> [i \in 1..10 |-> IF i % 2 = 0 THEN "status" ELSE "error"],
         verification |-> [i \in 1..20 |-> IF i % 2 = 0 THEN "timeout" ELSE "empty"]],
     plain_only |->
        [raises |-> FALSE,
         primary |-> [i \in 1..10 |-> IF i = 2 THEN "plain" ELSE "empty"],
         verification |-> [i \in 1..20 |-> "notitle"]],
     bullets |->
        [raises |-> FALSE,
         primary |-> [i \in 1..10 |-> IF i = 1 THEN "spaced" ELSE "status"],
         verification |-> [i \in 1..20 |-> IF i = 3 THEN "moved" ELSE "error"]]]

\* enhance_with_web_search(prompt) when the servers answer as in scenario sc
EnhanceForPrompt(prompt, sc) ==
    LET purls == primary_urls(SearchQuery(prompt))
        vurls == verification_urls
    IN enhance_with_web_search(
          IF sc.raises THEN <<>>
          ELSE perform_web_search(
                  [i \in 1..Len(purls) |-> fetch_url(purls[i], Pages[sc.primary[i]])],
                  [i \in 1..Len(vurls) |-> fetch_url(vurls[i], Pages[sc.verification[i]])]))

ScenarioInfo ==
    [p \in Prompts |-> [n \in DOMAIN Scenarios |-> EnhanceForPrompt(p, Scenarios[n])]]

InitSession ==
    /\ has_session = FALSE
    /\ history = <<>>
    /\ last_request_time = 0
    /\ requests_in_minute = 0
    /\ now = StartTime
    /\ pc = "idle"
    /\ user_prompt = ""
    /\ web_info = ""
    /\ shown = <<>>
    /\ error = NoError
    /\ start_chat_calls = 0
    /\ window_forwards = 0
    /\ searches = 0
    /\ search_arg = ""
    /\ sends = 0
    /\ sent_text = ""
    /\ rim_before = 0
    /\ outcome = "none"

\* lines 390-449: "chat_session" not in st.session_state
NeedsSession(present) == ~ present

\* the window already over at exactly 60 seconds
WindowExpired_AtSixty(current_time, last) == current_time - last >= RateWindow

\* line 479: the window has expired
WindowExpired(current_time, last) == current_time - last > RateWindow

\* line 483: the limit is reached
LimitReached(count) == count >= RateLimit

\* One run of the script up to process_request; p = "" when st.chat_input
\* returns None
RunScript(p) ==
    /\ pc = "idle"
    /\ LET fresh == NeedsSession(has_session)
           h0 == IF fresh THEN InitialHistory ELSE history
           lrt0 == IF fresh THEN 0 ELSE last_request_time
           rim0 == IF fresh THEN 0 ELSE requests_in_minute
           expired == WindowExpired(now, lrt0)
           rim1 == IF expired THEN 0 ELSE rim0
           lrt1 == IF expired THEN now ELSE lrt0
       IN /\ has_session' = TRUE
          /\ start_chat_calls' = start_chat_calls + (IF fresh THEN 1 ELSE 0)
          /\ history' = h0
          /\ user_prompt' = p
          /\ web_info' = ""
          /\ searches' = 0
          /\ search_arg' = ""
          /\ sends' = 0
          /\ sent_text' = ""
          /\ IF p = ""
             THEN /\ last_request_time' = lrt0
                  /\ requests_in_minute' = rim0
                  /\ window_forwards' = IF fresh THEN 0 ELSE window_forwards
                  /\ shown' = DisplayHistory(h0)
                  /\ error' = NoError
                  /\ rim_before' = rim0
                  /\ outcome' = "none"
                  /\ pc' = "idle"
             ELSE /\ last_request_time' = lrt1
                  /\ window_forwards' = IF expired THEN 0 ELSE window_forwards
                  /\ rim_before' = rim1
                  /\ IF LimitReached(rim1)
                     THEN /\ requests_in_minute' = rim1
                          /\ shown' = DisplayHistory(h0)
                          /\ error' = RateLimitError(RateWindow - (now - lrt1))
                          /\ outcome' = "rejected"
                          /\ pc' = "idle"
                     ELSE /\ requests_in_minute' = rim1 + 1
                          /\ shown' = Append(DisplayHistory(h0), [role |-> "user", text |-> p])
                          /\ error' = NoError
                          /\ outcome' = "running"
                          /\ pc' = "search"
    /\ UNCHANGED <<now, trustVars, formatVars, enhVars, searchVars>>

\* the script runs without a prompt (page load, rerun)
Rerun == RunScript("")

\* the user submits a prompt
SubmitPrompt == \E p \in Prompts : RunScript(p)

\* line 500 as one step: enhance_with_web_search never raises (its own except
\* returns ""), so the except of lines 503-506 is never entered
WebSearch ==
    /\ pc = "search"
    /\ \E n \in DOMAIN Scenarios : web_info' = ScenarioInfo[user_prompt][n]
    /\ searches' = searches + 1
    /\ search_arg' = user_prompt
    /\ pc' = "send"
    /\ UNCHANGED <<stateVars, now, user_prompt, shown, error, start_chat_calls,
                   window_forwards, sends, sent_text, rim_before, outcome,
                   trustVars, formatVars, enhVars, searchVars>>

\* line 507, the model answers: the SDK appends the message and the answer
SendMessageOk ==
    /\ pc = "send"
    /\ \E reply \in Replies :
          history' = history \o <<[role |-> "user", text |-> EnhancedPrompt(user_prompt)],
                                  [role |-> "model", text |-> reply]>>
    /\ sends' = sends + 1
    /\ sent_text' = EnhancedPrompt(user_prompt)
    /\ window_forwards' = window_forwards + 1
    /\ pc' = "render"
    /\ UNCHANGED <<has_session, last_request_time, requests_in_minute, now, user_prompt,
                   web_info, shown, error, start_chat_calls, searches, search_arg,
                   rim_before, outcome, trustVars, formatVars, enhVars, searchVars>>

\* line 507, send_message raises: nothing catches it, the run ends there
SendMessageRaises ==
    /\ pc = "send"
    /\ sends' = sends + 1
    /\ sent_text' = EnhancedPrompt(user_prompt)
    /\ window_forwards' = window_forwards + 1
    /\ error' = [message |-> "send_message raised", wait |-> 0]
    /\ outcome' = "send_failed"
    /\ pc' = "idle"
    /\ UNCHANGED <<stateVars, now, user_prompt, web_info, shown, start_chat_calls,
                   searches, search_arg, rim_before, trustVars, formatVars, enhVars, searchVars>>

\* gemini_response.text: the model entry the SDK has just appended
ResponseText(h) == h[Len(h)].text

\* the answer rendered without the web search results
combined_response_TextOnly(text, info) == text

\* line 509: gemini_response.text + web_info
combined_response(text, info) == text \o info

\* the statement of line 516, reached whether or not rendering raised
AfterRender(count) == count - 1

\* lines 509-516, the answer is rendered
RenderOk ==
    /\ pc = "render"
    /\ shown' = Append(shown, [role |-> "assistant",
                               text |-> combined_response(ResponseText(history), web_info)])
    /\ requests_in_minute' = AfterRender(requests_in_minute)
    /\ outcome' = "ok"
    /\ pc' = "idle"
    /\ UNCHANGED <<has_session, history, last_request_time, now, user_prompt, web_info,
                   error, start_chat_calls, window_forwards, searches, search_arg,
                   sends, sent_text, rim_before, trustVars, formatVars, enhVars, searchVars>>

\* lines 509-516, format_and_render_response raises
RenderRaises ==
    /\ pc = "render"
    /\ error' = [message |-> "Error getting response: rendering raised", wait |-> 0]
    /\ requests_in_minute' = AfterRender(requests_in_minute)
    /\ outcome' = "render_failed"
    /\ pc' = "idle"
    /\ UNCHANGED <<has_session, history, last_request_time, now, user_prompt, web_info,
                   shown, start_chat_calls, window_forwards, searches, search_arg,
                   sends, sent_text, rim_before, trustVars, formatVars, enhVars, searchVars>>

\* time passes between two script runs
Tick ==
    /\ pc = "idle"
    /\ \E d \in TickSteps :
          /\ now + d <= StartTime + MaxElapsed
          /\ now' = now + d
    /\ UNCHANGED <<stateVars, runVars, obsVars, trustVars, formatVars, enhVars, searchVars>>

\* the history holds fewer than MaxTurns exchanges
TurnsLeft == Len(history) < 2 + 2 * MaxTurns

\* the model answers, in a session that has room for another exchange
ModelAnswers ==
    /\ TurnsLeft
    /\ SendMessageOk

Next ==
    \/ Rerun
    \/ SubmitPrompt
    \/ WebSearch
    \/ ModelAnswers
    \/ SendMessageRaises
    \/ RenderOk
    \/ RenderRaises
    \/ Tick

Init == InitSession /\ TrustIdle /\ EnhanceIdle /\ SearchIdle /\ FormatIdle

Spec == Init /\ [][Next]_vars

(***************************************************************************)
(* A burst: prompts submitted back to back, every one answered and shown   *)
(***************************************************************************)
MaxBurst == 11

BurstSubmit ==
    /\ window_forwards < MaxBurst
    /\ RunScript(SamplePrompt)

BurstAnswer ==
    /\ pc = "send"
    /\ SendMessageOk

NextBurst ==
    \/ BurstSubmit
    \/ WebSearch
    \/ BurstAnswer
    \/ RenderOk

SpecBurst == Init /\ [][NextBurst]_vars

(***************************************************************************)
(* One request with perform_web_search at the grain of its fetch tasks     *)
(***************************************************************************)
\* how many URLs of either list the model requests
MaxPrimaryUrls == 3
MaxVerificationUrls == 2

\* the answers a server gives in this specification
FailureKinds == {"error", "timeout", "status", "empty", "notitle"}
SearchKinds == FailureKinds \cup {"spaced", "moved"}

SearchPrimaryUrls == Take(primary_urls(SearchQuery(SamplePrompt)), MaxPrimaryUrls)
SearchVerificationUrls == Take(verification_urls, MaxVerificationUrls)

\* fetch_url for every requested URL and answer
FetchTable ==
    [t \in {"primary", "verification"} |->
        LET urls == IF t = "primary" THEN SearchPrimaryUrls ELSE SearchVerificationUrls
        IN [i \in 1..Len(urls) |-> [k \in SearchKinds |-> fetch_url(urls[i], Pages[k])]]]

\* a task created by asyncio.create_task: the URL it fetches and, once done,
\* the answer it met and the value fetch_url returned
PendingTask(u) == [url |-> u, done |-> FALSE, kind |-> "", result |-> None]

\* a wait that ends as soon as one of the tasks is done
AllDone_AnyDone(tasks) == \E i \in DOMAIN tasks : tasks[i].done

\* every task awaited by asyncio.gather is done
AllDone(tasks) == \A i \in DOMAIN tasks : tasks[i].done

\* asyncio.gather(*tasks): the results in the order of the tasks
Gather(tasks) == [i \in DOMAIN tasks |-> tasks[i].result]

\* the session once the prompt has been accepted and process_request starts
InitSearch ==
    /\ has_session = TRUE
    /\ history = InitialHistory
    /\ last_request_time = StartTime
    /\ requests_in_minute = 1
    /\ now = StartTime
    /\ pc = "search"
    /\ user_prompt = SamplePrompt
    /\ web_info = ""
    /\ shown = <<[role |-> "user", text |-> SamplePrompt]>>
    /\ error = NoError
    /\ start_chat_calls = 1
    /\ window_forwards = 0
    /\ searches = 0
    /\ search_arg = ""
    /\ sends = 0
    /\ sent_text = ""
    /\ rim_before = 0
    /\ outcome = "running"
    /\ spc = "start"
    /\ primary_tasks = <<>>
    /\ verification_tasks = <<>>
    /\ formatted_results = <<>>
    /\ fetch_log = [ended |-> 0, failed |-> 0]
    /\ TrustIdle
    /\ EnhanceIdle
    /\ FormatIdle

\* lines 186-247: the URL lists are built and the primary tasks created
StartPrimary ==
    /\ pc = "search"
    /\ spc = "start"
    /\ primary_tasks' = [i \in 1..Len(SearchPrimaryUrls) |-> PendingTask(SearchPrimaryUrls[i])]
    /\ searches' = searches + 1
    /\ search_arg' = user_prompt
    /\ spc' = "primary"
    /\ UNCHANGED <<verification_tasks, formatted_results, fetch_log, stateVars, now, runVars,
                   start_chat_calls, window_forwards, sends, sent_text, rim_before,
                   outcome, trustVars, formatVars, enhVars>>

\* lines 275-276: an exception of perform_web_search's own, before any task
\* runs, is caught and [] returned
PerformRaises ==
    /\ pc = "search"
    /\ spc = "start"
    /\ formatted_results' = <<>>
    /\ searches' = searches + 1
    /\ search_arg' = user_prompt
    /\ spc' = "caught"
    /\ UNCHANGED <<primary_tasks, verification_tasks, fetch_log, stateVars, now, runVars,
                   start_chat_calls, window_forwards, sends, sent_text, rim_before,
                   outcome, trustVars, formatVars, enhVars>>

\* one fetch task runs to its end against answer k
Complete(tasks, t, i, k) ==
    [tasks EXCEPT ![i] = [url |-> tasks[i].url, done |-> TRUE, kind |-> k,
                          result |-> FetchTable[t][i][k]]]

Logged(log, result) ==
    [ended |-> log.ended + 1, failed |-> log.failed + (IF result = None THEN 1 ELSE 0)]

CompletePrimary ==
    /\ spc = "primary"
    /\ \E i \in DOMAIN primary_tasks, k \in SearchKinds :
          /\ ~ primary_tasks[i].done
          /\ primary_tasks' = Complete(primary_tasks, "primary", i, k)
          /\ fetch_log' = Logged(fetch_log, FetchTable["primary"][i][k])
    /\ UNCHANGED <<spc, verification_tasks, formatted_results, sessionVars,
                   trustVars, formatVars, enhVars>>

\* lines 249-256 when num_results primary results are found: return (the
\* tasks, locals of the function, are gone with it)
GatherPrimaryReturn ==
    /\ spc = "primary"
    /\ AllDone(primary_tasks)
    /\ LET formatted == AppendResults(<<>>, Gather(primary_tasks), 1, "primary")
       IN /\ ~ NeedsVerification(formatted)
          /\ formatted_results' = formatted
    /\ spc' = "returned"
    /\ primary_tasks' = <<>>
    /\ UNCHANGED <<verification_tasks, fetch_log, sessionVars, trustVars, formatVars, enhVars>>

\* lines 249-263 otherwise: the verification tasks are created
GatherPrimaryContinue ==
    /\ spc = "primary"
    /\ AllDone(primary_tasks)
    /\ LET formatted == AppendResults(<<>>, Gather(primary_tasks), 1, "primary")
       IN /\ NeedsVerification(formatted)
          /\ formatted_results' = formatted
    /\ verification_tasks' =
          [i \in 1..Len(SearchVerificationUrls) |-> PendingTask(SearchVerificationUrls[i])]
    /\ spc' = "verification"
    /\ UNCHANGED <<primary_tasks, fetch_log, sessionVars, trustVars, formatVars, enhVars>>

CompleteVerification ==
    /\ spc = "verification"
    /\ \E i \in DOMAIN verification_tasks, k \in SearchKinds :
          /\ ~ verification_tasks[i].done
          /\ verification_tasks' = Complete(verification_tasks, "verification", i, k)
          /\ fetch_log' = Logged(fetch_log, FetchTable["verification"][i][k])
    /\ UNCHANGED <<spc, primary_tasks, formatted_results, sessionVars, trustVars, formatVars, enhVars>>

\* lines 265-273
GatherVerification ==
    /\ spc = "verification"
    /\ AllDone(verification_tasks)
    /\ formatted_results' =
          AppendResults(formatted_results, Gather(verification_tasks), 1, "verification")
    /\ spc' = "returned"
    /\ primary_tasks' = <<>>
    /\ verification_tasks' = <<>>
    /\ UNCHANGED <<fetch_log, sessionVars, trustVars, formatVars, enhVars>>

\* lines 333-387 and 500: the list is turned into web_info
EnhanceReturn ==
    /\ pc = "search"
    /\ spc \in {"returned", "caught"}
    /\ web_info' = enhance_with_web_search(formatted_results)
    /\ pc' = "send"
    /\ UNCHANGED <<searchVars, stateVars, now, user_prompt, shown, error,
                   obsVars, trustVars, formatVars, enhVars>>

NextSearch ==
    \/ StartPrimary
    \/ PerformRaises
    \/ CompletePrimary
    \/ GatherPrimaryReturn
    \/ GatherPrimaryContinue
    \/ CompleteVerification
    \/ GatherVerification
    \/ EnhanceReturn
    \/ SendMessageOk
    \/ SendMessageRaises
    \/ RenderOk
    \/ RenderRaises

SpecSearch == InitSearch /\ [][NextSearch]_vars

(***************************************************************************)
(* Properties of the session                                               *)
(***************************************************************************)
\* C1 (as claimed): within one rate-limit window at most 10 prompts are
\* forwarded to the model by send_message, also when every earlier request of
\* the window succeeded.
C1_AtMostTenForwardsPerWindow == window_forwards <= 10

\* C2 (as claimed): when the processing of an accepted prompt fails (the model
\* call raises or rendering raises), requests_in_minute is back at the value it
\* had just before the prompt was accepted.
C2_FailedRequestsNotCounted ==
    (pc = "idle" /\ outcome \in {"send_failed", "render_failed"}) =>
        requests_in_minute = rim_before

\* C8: the first two entries of the chat history are the persona prompt (role
\* user) and the greeting (role model), they are created once per session, and
\* the history display never renders them while rendering every later entry in
\* order.
C8_PersonaPromptStays ==
    /\ start_chat_calls <= 1
    /\ has_session =>
          /\ Len(history) >= 2
          /\ history[1] = [role |-> "user", text |-> PERSONA_PROMPT]
          /\ history[2] = [role |-> "model", text |-> GREETING]
    /\ \A i \in DOMAIN shown : shown[i].text \notin {PERSONA_PROMPT, GREETING}
    /\ (has_session /\ pc = "idle" /\ outcome \in {"none", "rejected"}) =>
          /\ Len(shown) = Len(history) - 2
          /\ \A i \in DOMAIN shown :
                /\ shown[i].text = history[i + 2].text
                /\ shown[i].role = IF history[i + 2].role = "model" THEN "assistant"
                                   ELSE "user"

\* C8 witness: the script has run again, without a prompt, in a session that
\* holds an answered prompt and a failed one, and has displayed the exchange.
C8_Witness ==
    /\ has_session
    /\ pc = "idle"
    /\ outcome = "none"
    /\ Len(history) >= 4
    /\ requests_in_minute >= 1
    /\ Len(shown) = Len(history) - 2

\* C9: an accepted prompt p is forwarded to the model exactly once, as
\* 'For Indian credit cards only: ' followed by p, and only after the web
\* search for p (which received p itself) has finished; a prompt rejected by
\* the rate limit is never forwarded.
C9_ForwardedOnceAfterSearch ==
    /\ outcome = "rejected" => (sends = 0 /\ searches = 0)
    /\ sends <= 1
    /\ sends = 1 =>
          /\ searches = 1
          /\ search_arg = user_prompt
          /\ sent_text = "For Indian credit cards only: " \o user_prompt
    /\ pc = "search" => sends = 0
    /\ (pc = "render" \/ outcome \in {"ok", "send_failed", "render_failed"}) => sends = 1
    /\ pc = "render" =>
          history[Len(history) - 1] =
              [role |-> "user", text |-> "For Indian credit cards only: " \o user_prompt]

\* C9 witness: an accepted prompt has been searched for, forwarded and answered.
C9_Witness ==
    /\ pc = "idle"
    /\ outcome = "ok"
    /\ sends = 1
    /\ searches = 1
    /\ user_prompt \in Prompts

\* C12: a prompt that arrives while requests_in_minute is 10 or more and no
\* more than 60 seconds after last_request_time is rejected without side
\* effects: no web search and no model call are made, the chat history,
\* requests_in_minute and last_request_time are unchanged, and the wait
\* reported in the error is between 0 and 60 seconds.
C12_RejectedWithoutSideEffects ==
    [][(/\ pc = "idle"
        /\ now' = now
        /\ user_prompt' \in Prompts
        /\ has_session
        /\ requests_in_minute >= 10
        /\ now - last_request_time >= 0
        /\ now - last_request_time <= 60)
       => (/\ outcome' = "rejected"
           /\ pc' = "idle"
           /\ searches' = 0
           /\ sends' = 0
           /\ web_info' = ""
           /\ history' = history
           /\ requests_in_minute' = requests_in_minute
           /\ last_request_time' = last_request_time
           /\ error'.wait \in 0..60
           /\ error'.message = "Rate limit exceeded. Please wait approximately "
                                  \o ToString(error'.wait)
                                  \o " seconds before trying again.")]_vars

\* C12 witness: a prompt has been rejected exactly 60 seconds after
\* last_request_time, with ten requests counted and a reported wait of 0.
C12_Witness ==
    /\ pc = "idle"
    /\ outcome = "rejected"
    /\ requests_in_minute = 10
    /\ now - last_request_time = 60
    /\ error.wait = 0
    /\ searches = 0
    /\ sends = 0

\* C15: the snippet enhancement is shown only once and never stored: the text
\* rendered for a new answer is the model's text immediately followed by the
\* enhancement; every model entry of the chat history is exactly a text the
\* model returned, none holding the enhancement's heading; and the script run
\* that follows an answer displays that answer as the history holds it.
C15_EnhancementShownOnceNeverStored ==
    /\ []((pc = "idle" /\ outcome = "ok") =>
             shown[Len(shown)] = [role |-> "assistant",
                                  text |-> history[Len(history)].text \o web_info])
    /\ [](\A i \in DOMAIN history :
             /\ (i > 2 /\ history[i].role = "model") => history[i].text \in Replies
             /\ ~ Contains(history[i].text, "Latest Credit Card Updates"))
    /\ [][(pc = "idle" /\ outcome = "ok" /\ pc' = "idle" /\ now' = now /\ user_prompt' = "")
            => /\ history' = history
               /\ Len(shown') = Len(history) - 2
               /\ shown'[Len(shown')] = [role |-> "assistant",
                                         text |-> history[Len(history)].text]]_vars

\* C15 witness: a second answer has been rendered with a non-empty enhancement
\* after it, below the first answer displayed as the history holds it, and the
\* history holds the second answer without the enhancement.
C15_Witness ==
    /\ pc = "idle"
    /\ outcome = "ok"
    /\ web_info # ""
    /\ Len(history) = 6
    /\ Len(shown) = 4
    /\ shown[2].text = history[4].text
    /\ shown[4].text = history[6].text \o web_info
    /\ history[6].text \in Replies

(***************************************************************************)
(* Properties of the search                                                *)
(***************************************************************************)
DoneTasks == {primary_tasks[i] : i \in {j \in DOMAIN primary_tasks : primary_tasks[j].done}}
                \cup {verification_tasks[i] :
                        i \in {j \in DOMAIN verification_tasks : verification_tasks[j].done}}

\* C3: whatever combination of the fetches fails, fetch_url yields no result
\* for that URL, perform_web_search returns a list (empty on an exception of
\* its own), enhance_with_web_search returns a string (empty when nothing was
\* found), and the model is still called and, unless the call or the rendering
\* itself fails, its answer displayed.
C3_SnippetFetchingBestEffort ==
    /\ \A t \in DoneTasks : t.kind \in FailureKinds => t.result = None
    /\ spc \in {"returned", "caught"} => DOMAIN formatted_results = 1..Len(formatted_results)
    /\ spc = "caught" => formatted_results = <<>>
    /\ pc \in {"send", "render", "idle"} =>
          /\ web_info \in STRING
          /\ formatted_results = <<>> => web_info = ""
    /\ pc \in {"render", "idle"} => sends = 1
    /\ (pc = "idle" /\ outcome = "ok") =>
          shown[Len(shown)] = [role |-> "assistant",
                               text |-> history[Len(history)].text \o web_info]

\* C3 witness: every fetch of both phases has failed, and the model's answer
\* has been displayed.
C3_Witness ==
    /\ pc = "idle"
    /\ outcome = "ok"
    /\ fetch_log.ended = Len(SearchPrimaryUrls) + Len(SearchVerificationUrls)
    /\ fetch_log.failed = fetch_log.ended
    /\ web_info = ""
    /\ shown[Len(shown)].role = "assistant"

\* C10: the verification URLs (of the first five BANK_DOMAINS) are requested
\* only after all primary fetches have completed and only if fewer than
\* num_results of them yielded a snippet; in the returned list every primary
\* result precedes every verification result.
C10_TwoPhases ==
    /\ Len(verification_tasks) > 0 =>
          /\ \A i \in DOMAIN primary_tasks : primary_tasks[i].done
          /\ Cardinality({i \in DOMAIN primary_tasks :
                            /\ primary_tasks[i].result # None
                            /\ primary_tasks[i].result.snippet # ""}) < 3
    /\ \A i \in DOMAIN verification_tasks :
          \E b \in 1..5 : StartsWith(verification_tasks[i].url, "https://" \o BANK_DOMAINS[b] \o "/")
    /\ \A i, j \in DOMAIN formatted_results :
          (formatted_results[i].source_type = "verification"
             /\ formatted_results[j].source_type = "primary") => j < i

\* C10 witness: a list holding primary and verification results has been returned.
C10_Witness ==
    /\ spc = "returned"
    /\ \E i, j \in DOMAIN formatted_results :
          /\ formatted_results[i].source_type = "primary"
          /\ formatted_results[j].source_type = "verification"

\* C11: for every outcome of the fetches, the list perform_web_search returns
\* holds at most num_results (3) results, each with a non-empty snippet and a
\* source_type of 'primary' or 'verification'.
C11_AtMostNumResults ==
    spc \in {"returned", "caught"} =>
        /\ Len(formatted_results) <= 3
        /\ \A i \in DOMAIN formatted_results :
              /\ formatted_results[i].snippet \in STRING
              /\ Len(formatted_results[i].snippet) > 0
              /\ formatted_results[i].source_type \in {"primary", "verification"}

\* C11 witness: more than num_results fetches of the search gave a result, and
\* the list returned holds num_results of them.
C11_Witness ==
    /\ spc = "returned"
    /\ fetch_log.ended - fetch_log.failed > 3
    /\ Len(formatted_results) = 3

\* the values the fetches of both URL lists returned, in the order of the
\* lists, each with the kind of its list
FetchedInUrlOrder(ptasks, vtasks) ==
    [i \in 1..(Len(ptasks) + Len(vtasks)) |->
        IF i <= Len(ptasks)
        THEN [result |-> ptasks[i].result, source_type |-> "primary"]
        ELSE [result |-> vtasks[i - Len(ptasks)].result, source_type |-> "verification"]]

\* C14: the result of perform_web_search does not depend on the order in
\* which the parallel fetches complete: whenever it returns, every fetch task
\* it created is done, and the list is made of the first num_results fetches,
\* in the order of the URL lists, that returned a snippet.
C14_ResultIndependentOfCompletionOrder ==
    [][(spc \in {"primary", "verification"} /\ spc' = "returned") =>
          /\ \A i \in DOMAIN primary_tasks : primary_tasks[i].done
          /\ \A i \in DOMAIN verification_tasks : verification_tasks[i].done
          /\ LET fetched == FetchedInUrlOrder(primary_tasks, verification_tasks)
                 Gave(f) == f.result # None /\ f.result.snippet # ""
                 first == Take(SelectSeq(fetched, Gave), 3)
             IN /\ Len(formatted_results') = Len(first)
                /\ \A i \in DOMAIN first :
                      /\ formatted_results'[i].link = first[i].result.link
                      /\ formatted_results'[i].snippet = first[i].result.snippet
                      /\ formatted_results'[i].relevance_score
                            = first[i].result.relevance_score
                      /\ formatted_results'[i].source_type = first[i].source_type]_vars

\* C14 witness: the fetches complete out of the order of their URLs: the
\* second verification fetch has returned a snippet while the first is still
\* running, after a later primary fetch returned a snippet and an earlier one
\* did not.
C14_Witness ==
    /\ spc = "verification"
    /\ verification_tasks[2].done
    /\ verification_tasks[2].result # None
    /\ ~ verification_tasks[1].done
    /\ primary_tasks[1].result = None
    /\ primary_tasks[2].result # None

====
